---- MODULE Spec2Model ----
(***************************************************************************)
(* A model of the todo-app REST API (Express + Zod + Mongoose).            *)
(*                                                                         *)
(*   - the error classifier mapError and its type guards (SpecErr);        *)
(*   - the user router: validate(createUserSchema) -> createUser           *)
(*     -> UserModel with its unique e-mail index (SpecUser), the router    *)
(*     of routes/user.routes.ts taken by itself;                           *)
(*   - the task router: validate(...) -> task controllers -> TaskModel     *)
(*     (SpecTask);                                                         *)
(*   - one request in its handlers, statement by statement (SpecHandler);  *)
(*   - the server process: connectDB, listen, and the dispatch of a        *)
(*     request through the application's layers (SpecServer).              *)
(*                                                                         *)
(* Text that the code transforms (trim, toLowerCase, charAt/slice, join,   *)
(* template literals) is a sequence of one-character strings, so that the  *)
(* transformations are computed and not assumed.  Text that the code only  *)
(* compares (error names, operation tags) is a plain string.               *)
(***************************************************************************)
EXTENDS Integers, Sequences, FiniteSets, TLC

VARIABLES
    err,        \* the value handed to mapError
    res,        \* what mapError did with it: a returned pair, or a throw
    users,      \* the User collection, in insertion order
    ureqs,      \* the requests of the user router, by slot
    tasks,      \* the Task collection, in insertion order
    treqs,      \* the requests of the task router, by slot
    nextId,     \* the next identity value the store hands out
    now,        \* the store's clock, for createdAt / updatedAt
    h,          \* one request in its handlers, statement by statement
    srv         \* the server process: its start-up and the requests sent to it

vars == <<err, res, users, ureqs, tasks, treqs, nextId, now, h, srv>>

----------------------------------------------------------------------------
(* Bounds of the model.                                                    *)

MaxKeys == 2        \* keys in a duplicate-key error's keyValue payload
MaxErrs == 2        \* entries in a validation error's errors payload
MaxUserReq == 3     \* requests the user router handles in one behaviour
MaxTaskReq == 3     \* requests the task router handles in one behaviour
MaxServerReq == 2   \* requests clients send to the server in one behaviour

----------------------------------------------------------------------------
(* Status codes.                                                           *)

OK == 200
CREATED == 201
BAD_REQUEST == 400
UNAUTHORIZED == 401
FORBIDDEN == 403
NOT_FOUND == 404
CONFLICT == 409
INTERNAL_SERVER_ERROR == 500

DUPLICATE_KEY_CODE == 11000

----------------------------------------------------------------------------
(* Text.                                                                   *)

LowerLetters == <<"a","b","c","d","e","f","g","h","i","j","k","l","m",
                  "n","o","p","q","r","s","t","u","v","w","x","y","z">>
UpperLetters == <<"A","B","C","D","E","F","G","H","I","J","K","L","M",
                  "N","O","P","Q","R","S","T","U","V","W","X","Y","Z">>

IsLower(c) == \E i \in 1..26 : LowerLetters[i] = c
IsUpper(c) == \E i \in 1..26 : UpperLetters[i] = c
IsLetter(c) == IsLower(c) \/ IsUpper(c)

\* String.prototype.toUpperCase / toLowerCase on one character
ToUpperChar(c) ==
    IF IsLower(c) THEN UpperLetters[CHOOSE i \in 1..26 : LowerLetters[i] = c] ELSE c
ToLowerChar(c) ==
    IF IsUpper(c) THEN LowerLetters[CHOOSE i \in 1..26 : UpperLetters[i] = c] ELSE c

ToLowerCase(s) == [i \in 1..Len(s) |-> ToLowerChar(s[i])]

IsSpace(c) == c = " "

\* String.prototype.trim: drop the white space at both ends
RECURSIVE TrimStart(_)
TrimStart(s) ==
    IF s # <<>> /\ IsSpace(Head(s)) THEN TrimStart(Tail(s)) ELSE s
RECURSIVE TrimEnd(_)
TrimEnd(s) ==
    IF s # <<>> /\ IsSpace(s[Len(s)]) THEN TrimEnd(SubSeq(s, 1, Len(s) - 1)) ELSE s
Trim(s) == TrimEnd(TrimStart(s))

\* Array.prototype.join over texts
RECURSIVE Join(_, _)
Join(parts, sep) ==
    IF parts = <<>> THEN <<>>
    ELSE IF Len(parts) = 1 THEN parts[1]
    ELSE parts[1] \o sep \o Join(Tail(parts), sep)

\* All sequences over S of length at most n
SeqUpTo(S, n) == UNION {[1..k -> S] : k \in 0..n}

S_AlreadyExists == <<" ","a","l","r","e","a","d","y"," ","e","x","i","s","t","s">>
S_Record == <<"R","e","c","o","r","d">>
S_ValidationFailed == <<"V","a","l","i","d","a","t","i","o","n"," ","f","a","i","l","e","d">>
S_InvalidDataFormat == <<"I","n","v","a","l","i","d"," ","d","a","t","a"," ","f","o","r","m","a","t">>
S_Unexpected == <<"A","n"," ","u","n","e","x","p","e","c","t","e","d"," ","e","r","r","o","r"," ","o","c","c","u","r","r","e","d">>
S_CommaSpace == <<",", " ">>
S_TaskNotFound == <<"T","a","s","k"," ","n","o","t"," ","f","o","u","n","d">>
S_email == <<"e","m","a","i","l">>
S_name == <<"n","a","m","e">>
S_Boom == <<"b","o","o","m">>
S_TitleReq == <<"t","i","t","l","e"," ","r","e","q">>
S_NameReq == <<"n","a","m","e"," ","r","e","q">>

----------------------------------------------------------------------------
(* Error values, as far as mapError and its guards look at them.           *)
(*   kind        what typeof / instanceof Error say about the value        *)
(*   code        the code property: absent, a number, or a string          *)
(*   keyValue    absent, null, a string, or an object with keys in order   *)
(*   name        the name property of an Error                             *)
(*   errors      absent, null, or an object whose values, in enumeration   *)
(*               order, are null, an object without a message, or an       *)
(*               object with one                                           *)
(*   statusCode  absent, a number, NaN, or a string                        *)
(*   message     the message property                                      *)

NoProp == [t |-> "absent", n |-> 0]
NoKeyValue == [t |-> "absent", keys |-> <<>>]
NoErrors == [t |-> "absent", entries |-> <<>>]

Primitive(k) ==
    [kind |-> k, code |-> NoProp, keyValue |-> NoKeyValue, name |-> "",
     errors |-> NoErrors, statusCode |-> NoProp, message |-> <<>>]

IsObject(e) == e.kind \in {"object", "error"}      \* typeof e === 'object' && e !== null
InstanceOfError(e) == e.kind = "error"

isDuplicateKeyError(e) ==
    /\ IsObject(e)
    /\ e.code.t # "absent"
    /\ e.code.t = "num" /\ e.code.n = DUPLICATE_KEY_CODE

Thrown == [t |-> "throw", message |-> <<>>, statusCode |-> 0]
Returned(m, s) == [t |-> "return", message |-> m, statusCode |-> s]

\* field.charAt(0).toUpperCase() + field.slice(1)
Capitalize(field) ==
    IF field = <<>> THEN <<>> ELSE <<ToUpperChar(Head(field))>> \o Tail(field)

\* The text returned, or Thrown when Object.keys(...)[0] is undefined and
\* field.charAt raises a TypeError.
extractDuplicateField(e) ==
    IF IsObject(e) /\ e.keyValue.t = "object"
    THEN IF e.keyValue.keys = <<>>
         THEN Thrown
         ELSE Returned(Capitalize(e.keyValue.keys[1]), 0)
    ELSE Returned(S_Record, 0)

isValidationError(e) == InstanceOfError(e) /\ e.name = "ValidationError"

\* err => err.message, joined: join writes undefined as the empty text
EntryMessage(entry) == IF entry.t = "msg" THEN entry.message ELSE <<>>

\* Object.values(null) and null.message raise a TypeError.
extractValidationMessage_CommaOnly(e) ==
    IF InstanceOfError(e) /\ e.errors.t # "absent"
    THEN IF e.errors.t = "null" THEN Thrown
         ELSE IF \E i \in 1..Len(e.errors.entries) : e.errors.entries[i].t = "null"
         THEN Thrown
         ELSE Returned(Join([i \in 1..Len(e.errors.entries) |->
                                EntryMessage(e.errors.entries[i])], <<",">>), 0)
    ELSE Returned(S_ValidationFailed, 0)

extractValidationMessage(e) ==
    IF InstanceOfError(e) /\ e.errors.t # "absent"
    THEN IF e.errors.t = "null" THEN Thrown
         ELSE IF \E i \in 1..Len(e.errors.entries) : e.errors.entries[i].t = "null"
         THEN Thrown
         ELSE Returned(Join([i \in 1..Len(e.errors.entries) |->
                                EntryMessage(e.errors.entries[i])], S_CommaSpace), 0)
    ELSE Returned(S_ValidationFailed, 0)

\* a guard that knows no cast error
isCastError_Never(e) == FALSE

isCastError(e) == InstanceOfError(e) /\ e.name = "CastError"

\* typeof NaN is 'number'
isAppError(e) == InstanceOfError(e) /\ e.statusCode.t \in {"num", "nan"}

\* error.statusCode || StatusCodes.INTERNAL_SERVER_ERROR
StatusOrDefault(sc) ==
    IF sc.t = "nan" \/ sc.n = 0 THEN INTERNAL_SERVER_ERROR ELSE sc.n

\* mapError without its branch for standard Error objects
mapError_NoErrorBranch(e) ==
    IF isDuplicateKeyError(e)
    THEN LET field == extractDuplicateField(e)
         IN  IF field.t = "throw" THEN Thrown
             ELSE Returned(field.message \o S_AlreadyExists, CONFLICT)
    ELSE IF isValidationError(e)
    THEN LET msg == extractValidationMessage(e)
         IN  IF msg.t = "throw" THEN Thrown
             ELSE Returned(msg.message, BAD_REQUEST)
    ELSE IF isCastError(e)
    THEN Returned(S_InvalidDataFormat, BAD_REQUEST)
    ELSE IF isAppError(e)
    THEN Returned(e.message, StatusOrDefault(e.statusCode))
    ELSE Returned(S_Unexpected, INTERNAL_SERVER_ERROR)

mapError(e) ==
    IF isDuplicateKeyError(e)
    THEN LET field == extractDuplicateField(e)
         IN  IF field.t = "throw" THEN Thrown
             ELSE Returned(field.message \o S_AlreadyExists, CONFLICT)
    ELSE IF isValidationError(e)
    THEN LET msg == extractValidationMessage(e)
         IN  IF msg.t = "throw" THEN Thrown
             ELSE Returned(msg.message, BAD_REQUEST)
    ELSE IF isCastError(e)
    THEN Returned(S_InvalidDataFormat, BAD_REQUEST)
    ELSE IF isAppError(e)
    THEN Returned(e.message, StatusOrDefault(e.statusCode))
    ELSE IF InstanceOfError(e)
    THEN Returned(e.message, INTERNAL_SERVER_ERROR)
    ELSE Returned(S_Unexpected, INTERNAL_SERVER_ERROR)

----------------------------------------------------------------------------
(* The error classes of helpers/error-classes.ts: an Error with its own    *)
(* message, a statusCode and the class name as name.                       *)

AppError(message, statusCode) ==
    [kind |-> "error", code |-> NoProp, keyValue |-> NoKeyValue, name |-> "AppError",
     errors |-> NoErrors, statusCode |-> [t |-> "num", n |-> statusCode],
     message |-> message]
NotFoundError(message) ==
    [AppError(message, NOT_FOUND) EXCEPT !.name = "NotFoundError"]
BadRequestError(message) ==
    [AppError(message, BAD_REQUEST) EXCEPT !.name = "BadRequestError"]
UnauthorizedError(message) ==
    [AppError(message, UNAUTHORIZED) EXCEPT !.name = "UnauthorizedError"]
ForbiddenError(message) ==
    [AppError(message, FORBIDDEN) EXCEPT !.name = "ForbiddenError"]

----------------------------------------------------------------------------
(* The error values the classifier is tried on.                            *)

CodeProps == {NoProp, [t |-> "num", n |-> DUPLICATE_KEY_CODE],
              [t |-> "num", n |-> 2], [t |-> "str", n |-> DUPLICATE_KEY_CODE]}
KeyNames == {S_email, S_name}
KeyValueProps ==
    {NoKeyValue, [t |-> "null", keys |-> <<>>], [t |-> "string", keys |-> <<>>]}
    \cup {[t |-> "object", keys |-> ks] : ks \in SeqUpTo(KeyNames, MaxKeys)}
ErrorNames == {"Error", "ValidationError", "CastError"}
ErrorEntries ==
    {[t |-> "null", message |-> <<>>], [t |-> "nomsg", message |-> <<>>],
     [t |-> "msg", message |-> S_TitleReq], [t |-> "msg", message |-> S_NameReq]}
ErrorsProps ==
    {NoErrors, [t |-> "null", entries |-> <<>>]}
    \cup {[t |-> "object", entries |-> es] : es \in SeqUpTo(ErrorEntries, MaxErrs)}
StatusProps == {NoProp, [t |-> "num", n |-> 0], [t |-> "num", n |-> NOT_FOUND],
                [t |-> "nan", n |-> 0], [t |-> "str", n |-> NOT_FOUND]}
Messages == {<<>>, S_Boom}

\* Thrown strings, numbers, null and undefined; plain objects (which only the
\* duplicate-key guard can accept), with a code and a keyValue or with a
\* statusCode and a message; instances of the error classes; and Error
\* instances with every combination of the properties the guards read.
ErrorValues ==
    {Primitive(k) : k \in {"undefined", "null", "string", "number"}}
    \cup {[Primitive("object") EXCEPT !.code = c, !.keyValue = kv] :
            c \in CodeProps, kv \in KeyValueProps}
    \cup {[Primitive("object") EXCEPT !.statusCode = sc, !.message = m] :
            sc \in StatusProps, m \in Messages}
    \cup {AppError(m, INTERNAL_SERVER_ERROR) : m \in Messages}
    \cup {NotFoundError(m) : m \in Messages}
    \cup {BadRequestError(m) : m \in Messages}
    \cup {UnauthorizedError(m) : m \in Messages}
    \cup {ForbiddenError(m) : m \in Messages}
    \cup {[kind |-> "error", code |-> c, keyValue |-> kv, name |-> n, errors |-> es,
           statusCode |-> sc, message |-> m] :
            c \in CodeProps, kv \in KeyValueProps,
            n \in ErrorNames, es \in ErrorsProps, sc \in StatusProps, m \in Messages}

NotCalled == [t |-> "none", message |-> <<>>, statusCode |-> 0]

----------------------------------------------------------------------------
(* The classifier on its own: one value in, one outcome out.               *)

NoHandler == [pc |-> "none"]
NoServer == [db |-> "none", proc |-> "none", listening |-> FALSE, reqs |-> <<>>]

InitOther ==
    /\ h = NoHandler
    /\ srv = NoServer
    /\ users = <<>>
    /\ ureqs = <<>>
    /\ tasks = <<>>
    /\ treqs = <<>>
    /\ nextId = 1
    /\ now = 0

InitErr ==
    /\ err \in ErrorValues
    /\ res = NotCalled
    /\ InitOther

MapErrorCall ==
    /\ res.t = "none"
    /\ res' = mapError(err)
    /\ UNCHANGED <<err, users, ureqs, tasks, treqs, nextId, now, h, srv>>

NextErr == MapErrorCall

SpecErr == InitErr /\ [][NextErr]_vars

----------------------------------------------------------------------------
(* Claims about the classifier, under SpecErr.                             *)

Called == res.t # "none"
HasDuplicateSignal(e) ==
    e.kind \in {"object", "error"} /\ e.code = [t |-> "num", n |-> DUPLICATE_KEY_CODE]
TaggedValidation(e) == e.kind = "error" /\ e.name = "ValidationError"
HasKey(e) == e.keyValue.t = "object" /\ Len(e.keyValue.keys) >= 1
FirstKeyCapitalised(e) ==
    LET k == e.keyValue.keys[1]
    IN  IF k = <<>> THEN k ELSE <<ToUpperChar(k[1])>> \o SubSeq(k, 2, Len(k))

\* C6: mapError returns a {message, statusCode} pair and never throws, for
\* every input value (among them code 11000 with keyValue {} and a
\* ValidationError whose errors is null or holds a null entry).
C6_NeverThrows == Called => res.t = "return"

\* C7: every value with the duplicate-key signal (code 11000) is mapped to
\* 409 and '<Field> already exists', <Field> being the first key of keyValue
\* with its first letter capitalised ('Record' when there is no keyValue
\* object to take a key from).
C7_DuplicateKeyIs409 ==
    (Called /\ HasDuplicateSignal(err)) =>
        /\ res.t = "return"
        /\ res.statusCode = 409
        /\ res.message =
             (IF HasKey(err) THEN FirstKeyCapitalised(err) ELSE S_Record)
                \o S_AlreadyExists

\* C8: a duplicate-key error from which no field name can be extracted
\* (keyValue absent, not an object, null, or an object with no keys) is
\* mapped to 409 'Record already exists'.
C8_RecordWhenNoField ==
    (Called /\ HasDuplicateSignal(err) /\ ~HasKey(err)) =>
        res = [t |-> "return", message |-> S_Record \o S_AlreadyExists,
               statusCode |-> 409]

\* The field messages of an errors payload, joined by ', ' in payload order,
\* built from the last entry backwards.
RECURSIVE JoinedInOrder(_)
JoinedInOrder(entries) ==
    IF Len(entries) = 1 THEN entries[1].message
    ELSE JoinedInOrder(SubSeq(entries, 1, Len(entries) - 1))
            \o <<",", " ">> \o entries[Len(entries)].message

CarriesFieldMessages(e) ==
    /\ e.errors.t = "object"
    /\ Len(e.errors.entries) >= 1
    /\ \A i \in 1..Len(e.errors.entries) : e.errors.entries[i].t = "msg"

\* C9: a store validation error (name 'ValidationError') without the
\* duplicate-key signal that carries nested per-field messages is mapped to
\* 400 and those messages joined by ', ' in the order of the errors payload.
C9_ValidationJoined ==
    (Called /\ TaggedValidation(err) /\ ~HasDuplicateSignal(err)
        /\ CarriesFieldMessages(err)) =>
        res = [t |-> "return", message |-> JoinedInOrder(err.errors.entries),
               statusCode |-> 400]

\* Two different field messages were joined.
C9_Witness ==
    /\ Called /\ TaggedValidation(err) /\ ~HasDuplicateSignal(err)
    /\ CarriesFieldMessages(err)
    /\ Len(err.errors.entries) = 2
    /\ err.errors.entries[1].message # err.errors.entries[2].message
    /\ res.t = "return" /\ res.statusCode = 400

\* C10: a store validation error from which no per-field message can be
\* extracted (errors absent, or present with no entries) is mapped to 400
\* 'Validation failed'.
C10_ValidationFallback ==
    (Called /\ TaggedValidation(err) /\ ~HasDuplicateSignal(err)
        /\ (err.errors.t = "absent"
            \/ (err.errors.t = "object" /\ err.errors.entries = <<>>))) =>
        res = [t |-> "return", message |-> S_ValidationFailed, statusCode |-> 400]

TaggedCast(e) == e.kind = "error" /\ e.name = "CastError"
CarriesNumericStatus(e) ==
    e.kind \in {"object", "error"} /\ e.statusCode.t \in {"num", "nan"}
CarriedOr500(e) ==
    IF e.statusCode.t = "nan" \/ e.statusCode.n = 0 THEN 500 ELSE e.statusCode.n

\* C11: every error object that carries a numeric statusCode (an instance of
\* an AppError class, an Error with the field attached, or a plain object)
\* and is no duplicate-key, validation or cast error is mapped to its own
\* message and the carried status code, 500 when the carried code is 0 or
\* NaN; NotFoundError, BadRequestError, UnauthorizedError and ForbiddenError
\* map to 404, 400, 401 and 403.
C11_AppErrorOwnStatus ==
    (Called /\ CarriesNumericStatus(err) /\ ~HasDuplicateSignal(err)
        /\ ~TaggedValidation(err) /\ ~TaggedCast(err)) =>
        /\ res = [t |-> "return", message |-> err.message,
                  statusCode |-> CarriedOr500(err)]
        /\ err.name = "NotFoundError" => res.statusCode = 404
        /\ err.name = "BadRequestError" => res.statusCode = 400
        /\ err.name = "UnauthorizedError" => res.statusCode = 401
        /\ err.name = "ForbiddenError" => res.statusCode = 403

RecognisedKind(e) ==
    HasDuplicateSignal(e) \/ TaggedValidation(e) \/ TaggedCast(e)
        \/ CarriesNumericStatus(e)

AppShaped(e) == e.kind = "error" /\ e.statusCode.t \in {"num", "nan"}
ShapesMatched(e) ==
    {k \in {"duplicate", "validation", "cast", "application"} :
        \/ (k = "duplicate" /\ HasDuplicateSignal(e))
        \/ (k = "validation" /\ TaggedValidation(e))
        \/ (k = "cast" /\ TaggedCast(e))
        \/ (k = "application" /\ AppShaped(e))}
EndsWith(s, suffix) ==
    Len(s) >= Len(suffix) /\ SubSeq(s, Len(s) - Len(suffix) + 1, Len(s)) = suffix

\* C13: mapError classifies by first match in the order duplicate-key,
\* validation, cast, application, generic error, anything else: for an error
\* that satisfies several shape tests at once the result is the one of the
\* earliest matching kind (409 '... already exists' with code 11000 whatever
\* the name; 400 for a ValidationError or CastError whatever the statusCode).
C13_FirstMatchWins ==
    (Called /\ Cardinality(ShapesMatched(err)) >= 2) =>
        /\ res.t = "return"
        /\ IF "duplicate" \in ShapesMatched(err)
           THEN res.statusCode = 409 /\ EndsWith(res.message, S_AlreadyExists)
           ELSE IF "validation" \in ShapesMatched(err)
           THEN res.statusCode = 400
           ELSE res.statusCode = 400 /\ res.message = S_InvalidDataFormat

----------------------------------------------------------------------------
(* Request values and the Zod schemas.                                     *)
(*                                                                         *)
(* A JSON value of a request body is undefined (the key is missing), a     *)
(* string, a boolean or a number.  A string schema is a type test followed *)
(* by its checks in the order the schema chains them: min, max and email   *)
(* test the value as it stands at that point of the chain, trim and        *)
(* toLowerCase overwrite it.  Every check runs; the issues accumulate.     *)

Undef == [t |-> "undef", s |-> <<>>, b |-> FALSE]
Str(s) == [t |-> "str", s |-> s, b |-> FALSE]
Bool(b) == [t |-> "bool", s |-> <<>>, b |-> b]
Num == [t |-> "num", s |-> <<>>, b |-> FALSE]

S_body == <<"b","o","d","y">>
S_title == <<"t","i","t","l","e">>
S_description == <<"d","e","s","c","r","i","p","t","i","o","n">>
S_completed == <<"c","o","m","p","l","e","t","e","d">>
S_Dot == <<".">>
S_NameRequired == <<"N","a","m","e"," ","i","s"," ","r","e","q","u","i","r","e","d">>
S_NameMin == <<"N","a","m","e"," ","m","u","s","t"," ","b","e"," ","a","t"," ","l","e","a","s","t"," ","2"," ","c","h","a","r","a","c","t","e","r","s">>
S_NameMax == <<"N","a","m","e"," ","m","u","s","t"," ","n","o","t"," ","e","x","c","e","e","d"," ","1","0","0"," ","c","h","a","r","a","c","t","e","r","s">>
S_EmailRequired == <<"E","m","a","i","l"," ","i","s"," ","r","e","q","u","i","r","e","d">>
S_EmailFormat == <<"I","n","v","a","l","i","d"," ","e","m","a","i","l"," ","f","o","r","m","a","t">>
S_TitleRequired == <<"T","i","t","l","e"," ","i","s"," ","r","e","q","u","i","r","e","d">>
S_TitleMin == <<"T","i","t","l","e"," ","m","u","s","t"," ","n","o","t"," ","b","e"," ","e","m","p","t","y">>
S_TitleMax == <<"T","i","t","l","e"," ","m","u","s","t"," ","n","o","t"," ","e","x","c","e","e","d"," ","2","0","0"," ","c","h","a","r","a","c","t","e","r","s">>
S_DescMax == <<"D","e","s","c","r","i","p","t","i","o","n"," ","m","u","s","t"," ","n","o","t"," ","e","x","c","e","e","d"," ","1","0","0","0"," ","c","h","a","r","a","c","t","e","r","s">>
S_InvalidInputExpected == <<"I","n","v","a","l","i","d"," ","i","n","p","u","t",":"," ","e","x","p","e","c","t","e","d"," ">>
S_Received == <<","," ","r","e","c","e","i","v","e","d"," ">>
S_string == <<"s","t","r","i","n","g">>
S_boolean == <<"b","o","o","l","e","a","n">>
S_number == <<"n","u","m","b","e","r">>
S_undefined == <<"u","n","d","e","f","i","n","e","d">>
S_UserCreated == <<"U","s","e","r"," ","c","r","e","a","t","e","d"," ","s","u","c","c","e","s","s","f","u","l","l","y">>
S_UsersRetrieved == <<"U","s","e","r","s"," ","r","e","t","r","i","e","v","e","d"," ","s","u","c","c","e","s","s","f","u","l","l","y">>
S_TaskCreated == <<"T","a","s","k"," ","c","r","e","a","t","e","d"," ","s","u","c","c","e","s","s","f","u","l","l","y">>
S_TasksRetrieved == <<"T","a","s","k","s"," ","r","e","t","r","i","e","v","e","d"," ","s","u","c","c","e","s","s","f","u","l","l","y">>
S_TaskRetrieved == <<"T","a","s","k"," ","r","e","t","r","i","e","v","e","d"," ","s","u","c","c","e","s","s","f","u","l","l","y">>
S_TaskUpdated == <<"T","a","s","k"," ","u","p","d","a","t","e","d"," ","s","u","c","c","e","s","s","f","u","l","l","y">>
S_TaskDeleted == <<"T","a","s","k"," ","d","e","l","e","t","e","d"," ","s","u","c","c","e","s","s","f","u","l","l","y">>
S_TaskToggled == <<"T","a","s","k"," ","s","t","a","t","u","s"," ","t","o","g","g","l","e","d"," ","s","u","c","c","e","s","s","f","u","l","l","y">>
\* Mongoose: "Path `<path>` is required." (written here without the backquotes)
S_PathRequiredPre == <<"P","a","t","h"," ">>
S_PathRequiredPost == <<" ","i","s"," ","r","e","q","u","i","r","e","d",".">>
S_NoDocumentFound == <<"N","o"," ","d","o","c","u","m","e","n","t"," ","f","o","u","n","d"," ","f","o","r"," ","q","u","e","r","y">>

NAME_MIN == 2
NAME_MAX == 100
TITLE_MIN == 1
TITLE_MAX == 200
DESCRIPTION_MAX == 1000

MinCheck(n, msg) == [k |-> "min", n |-> n, msg |-> msg]
MaxCheck(n, msg) == [k |-> "max", n |-> n, msg |-> msg]
EmailCheck(msg) == [k |-> "email", n |-> 0, msg |-> msg]
TrimCheck == [k |-> "trim", n |-> 0, msg |-> <<>>]
LowerCheck == [k |-> "lower", n |-> 0, msg |-> <<>>]

\* The e-mail pattern of the string format check:
\*   local part  [A-Za-z0-9_'+-.]* ending in [A-Za-z0-9_+-], not starting
\*               with a dot, no two dots in a row anywhere;
\*   domain      one or more labels [A-Za-z0-9][A-Za-z0-9-]* each followed by
\*               a dot, then two or more letters.
IsDigit(c) == c \in {"0","1","2","3","4","5","6","7","8","9"}
IsAlnum(c) == IsLetter(c) \/ IsDigit(c)
LocalChar(c) == IsAlnum(c) \/ c \in {"_", "'", "+", "-", "."}
LocalEndChar(c) == IsAlnum(c) \/ c \in {"_", "+", "-"}

LocalPartOk(l) ==
    /\ Len(l) >= 1
    /\ \A i \in 1..Len(l) : LocalChar(l[i])
    /\ l[1] # "."
    /\ LocalEndChar(l[Len(l)])

DomainOk(d) ==
    \E j \in 2..Len(d) :
        /\ d[j] = "."
        /\ Len(d) - j >= 2
        /\ \A i \in (j + 1)..Len(d) : IsLetter(d[i])
        /\ IsAlnum(d[1])
        /\ \A i \in 1..(j - 1) :
              \/ IsAlnum(d[i]) \/ d[i] = "-"
              \/ (d[i] = "." /\ i > 1 /\ d[i - 1] # "." /\ IsAlnum(d[i + 1]))

IsEmail(s) ==
    /\ ~ \E i \in 1..(Len(s) - 1) : s[i] = "." /\ s[i + 1] = "."
    /\ \E i \in 1..Len(s) :
          /\ s[i] = "@"
          /\ LocalPartOk(SubSeq(s, 1, i - 1))
          /\ DomainOk(SubSeq(s, i + 1, Len(s)))

\* One check applied to the value as it stands: the value after it, and the
\* issue it raises (none: the empty sequence).
CheckValue(c, s) ==
    IF c.k = "trim" THEN Trim(s)
    ELSE IF c.k = "lower" THEN ToLowerCase(s)
    ELSE s
CheckIssues(c, s) ==
    IF \/ (c.k = "min" /\ Len(s) < c.n)
       \/ (c.k = "max" /\ Len(s) > c.n)
       \/ (c.k = "email" /\ ~IsEmail(s))
    THEN <<c.msg>> ELSE <<>>

RECURSIVE RunChecks(_, _)
RunChecks(checks, s) ==
    IF checks = <<>> THEN [value |-> s, issues |-> <<>>]
    ELSE LET rest == RunChecks(Tail(checks), CheckValue(Head(checks), s))
         IN  [value |-> rest.value,
              issues |-> CheckIssues(Head(checks), s) \o rest.issues]

\* z.string({message}).<checks>: the parsed value and the issue messages
ParseString(v, typeMsg, checks) ==
    IF v.t # "str" THEN [value |-> v, issues |-> <<typeMsg>>]
    ELSE LET r == RunChecks(checks, v.s)
         IN  [value |-> Str(r.value), issues |-> r.issues]

\* The message of a type test that was given none of its own
TypeOfName(v) ==
    IF v.t = "str" THEN S_string ELSE IF v.t = "bool" THEN S_boolean
    ELSE IF v.t = "num" THEN S_number ELSE S_undefined
ExpectedMessage(expected, v) ==
    S_InvalidInputExpected \o expected \o S_Received \o TypeOfName(v)

\* z.boolean()
ParseBoolean(v) ==
    IF v.t # "bool" THEN [value |-> v, issues |-> <<ExpectedMessage(S_boolean, v)>>]
    ELSE [value |-> v, issues |-> <<>>]

\* .optional(): undefined passes as it is
Optional(v, parsed) == IF v.t = "undef" THEN [value |-> v, issues |-> <<>>] ELSE parsed

\* .default(d): undefined becomes d
WithDefault(v, d, parsed) == IF v.t = "undef" THEN [value |-> d, issues |-> <<>>] ELSE parsed

\* The issues of one field, each with its dotted path (issue.path.join('.'))
AtPath(path, issues) ==
    [i \in 1..Len(issues) |-> [field |-> Join(path, S_Dot), message |-> issues[i]]]

NameChecks == <<MinCheck(NAME_MIN, S_NameMin), MaxCheck(NAME_MAX, S_NameMax), TrimCheck>>
EmailChecks == <<EmailCheck(S_EmailFormat), LowerCheck, TrimCheck>>

TitleChecks == <<MinCheck(TITLE_MIN, S_TitleMin), MaxCheck(TITLE_MAX, S_TitleMax), TrimCheck>>
DescriptionChecks == <<MaxCheck(DESCRIPTION_MAX, S_DescMax), TrimCheck>>

\* createTaskSchema on {body: {title, description, completed}}
createTaskSchema(body) ==
    LET t == ParseString(body.title, S_TitleRequired, TitleChecks)
        d == Optional(body.description,
                      ParseString(body.description,
                                  ExpectedMessage(S_string, body.description),
                                  DescriptionChecks))
        c == WithDefault(body.completed, Bool(FALSE),
                         Optional(body.completed, ParseBoolean(body.completed)))
    IN  [value |-> [title |-> t.value, description |-> d.value, completed |-> c.value],
         issues |-> AtPath(<<S_body, S_title>>, t.issues)
                    \o AtPath(<<S_body, S_description>>, d.issues)
                    \o AtPath(<<S_body, S_completed>>, c.issues)]

\* updateTaskSchema on {body: {title, description, completed}, params: {id}};
\* params.id is a string whatever the path holds.
updateTaskSchema(body) ==
    LET t == Optional(body.title,
                      ParseString(body.title, ExpectedMessage(S_string, body.title),
                                  TitleChecks))
        d == Optional(body.description,
                      ParseString(body.description,
                                  ExpectedMessage(S_string, body.description),
                                  DescriptionChecks))
        c == Optional(body.completed, ParseBoolean(body.completed))
    IN  [value |-> [title |-> t.value, description |-> d.value, completed |-> c.value],
         issues |-> AtPath(<<S_body, S_title>>, t.issues)
                    \o AtPath(<<S_body, S_description>>, d.issues)
                    \o AtPath(<<S_body, S_completed>>, c.issues)]

\* getTaskSchema and deleteTaskSchema on {params: {id}}: a path parameter is
\* always a string, so nothing fails.
getTaskSchema(body) == [value |-> body, issues |-> <<>>]
deleteTaskSchema(body) == [value |-> body, issues |-> <<>>]

\* createUserSchema on {body: {name, email}}
createUserSchema(body) ==
    LET n == ParseString(body.name, S_NameRequired, NameChecks)
        e == ParseString(body.email, S_EmailRequired, EmailChecks)
    IN  [value |-> [name |-> n.value, email |-> e.value],
         issues |-> AtPath(<<S_body, S_name>>, n.issues)
                    \o AtPath(<<S_body, S_email>>, e.issues)]

----------------------------------------------------------------------------
(* Responses and the validate middleware.                                  *)

NoData == [k |-> "none", docs |-> <<>>]
OneDoc(d) == [k |-> "doc", docs |-> <<d>>]
DocList(ds) == [k |-> "list", docs |-> ds]

NoResponse ==
    [status |-> 0, success |-> FALSE, message |-> <<>>, data |-> NoData, errors |-> <<>>]

\* res.status(statusCode).json({success: true, message, data})
successResponse(data, message, statusCode) ==
    [status |-> statusCode, success |-> TRUE, message |-> message,
     data |-> data, errors |-> <<>>]

\* res.status(statusCode).json({success: false, message})
errorResponse(message, statusCode) ==
    [status |-> statusCode, success |-> FALSE, message |-> message,
     data |-> NoData, errors |-> <<>>]

\* The catch block of every controller: mapError, then errorResponse.  When
\* mapError itself throws, the handler's promise rejects with nothing written.
CatchResponse(e) ==
    LET m == mapError(e)
    IN  IF m.t = "throw" THEN NoResponse ELSE errorResponse(m.message, m.statusCode)

\* validate(schema): parseAsync succeeds and next() is called, or the
\* ZodError's issues are answered with 400.  parseAsync rejects with nothing
\* but a ZodError for these schemas, so the 500 answer of the middleware's
\* last branch is never written.
\* validate calling next() whatever parseAsync did
validate_NextAlways(parsed) ==
    [next |-> TRUE,
     resp |-> IF parsed.issues = <<>> THEN NoResponse
              ELSE [status |-> BAD_REQUEST, success |-> FALSE,
                    message |-> S_ValidationFailed, data |-> NoData,
                    errors |-> parsed.issues]]

validate(parsed) ==
    IF parsed.issues = <<>>
    THEN [next |-> TRUE, resp |-> NoResponse]
    ELSE [next |-> FALSE,
          resp |-> [status |-> BAD_REQUEST, success |-> FALSE,
                    message |-> S_ValidationFailed, data |-> NoData,
                    errors |-> parsed.issues]]

\* What req.body holds when next() runs.  The middleware awaits parseAsync
\* and drops what it resolves to: nothing is assigned to req.body, req.query
\* or req.params.
BodyAfterValidate(raw, parsed) == raw

----------------------------------------------------------------------------
(* The store's errors, as mapError sees them.                              *)

S_E11000 == <<"E","1","1","0","0","0"," ","d","u","p","l","i","c","a","t","e"," ","k","e","y"," ","e","r","r","o","r">>
S_ValidationFailedShort == <<"V","a","l","i","d","a","t","i","o","n"," ","f","a","i","l","e","d">>
S_CastFailed == <<"C","a","s","t"," ","t","o"," ","O","b","j","e","c","t","I","d"," ","f","a","i","l","e","d">>

\* MongoServerError E11000, raised by a unique index; keyValue names the
\* indexed field.
DuplicateKeyError(field) ==
    [kind |-> "error", code |-> [t |-> "num", n |-> DUPLICATE_KEY_CODE],
     keyValue |-> [t |-> "object", keys |-> <<field>>], name |-> "MongoServerError",
     errors |-> NoErrors, statusCode |-> NoProp, message |-> S_E11000]

\* Mongoose ValidationError: one entry per path whose validator failed.
RequiredMessage(path) == S_PathRequiredPre \o path \o S_PathRequiredPost
StoreValidationError(paths) ==
    [kind |-> "error", code |-> NoProp, keyValue |-> NoKeyValue,
     name |-> "ValidationError",
     errors |-> [t |-> "object",
                 entries |-> [i \in 1..Len(paths) |->
                                [t |-> "msg", message |-> RequiredMessage(paths[i])]]],
     statusCode |-> NoProp, message |-> S_ValidationFailedShort]

\* Mongoose CastError: the identity value is not a well-formed ObjectId.
StoreCastError ==
    [kind |-> "error", code |-> NoProp, keyValue |-> NoKeyValue, name |-> "CastError",
     errors |-> NoErrors, statusCode |-> NoProp, message |-> S_CastFailed]

\* Mongoose DocumentNotFoundError: save() of a document that is gone.
StoreDocumentNotFoundError ==
    [kind |-> "error", code |-> NoProp, keyValue |-> NoKeyValue,
     name |-> "DocumentNotFoundError",
     errors |-> NoErrors, statusCode |-> NoProp, message |-> S_NoDocumentFound]

\* required: true on a String path: undefined and '' fail.
RequiredFails(v) == v.t = "undef" \/ (v.t = "str" /\ v.s = <<>>)

\* The paths among `paths` of `data` whose required validator fails, in
\* schema order.
RECURSIVE FailingPaths(_, _)
FailingPaths(data, paths) ==
    IF paths = <<>> THEN <<>>
    ELSE (IF RequiredFails(data[Head(paths).key]) THEN <<Head(paths).name>> ELSE <<>>)
            \o FailingPaths(data, Tail(paths))

----------------------------------------------------------------------------
(* The user service and the User collection.                               *)
(*                                                                         *)
(* userSchema: name and email are required Strings; email carries a unique *)
(* index.  The index compares the stored strings as they are: the schema   *)
(* sets neither lowercase nor trim, and the collection has no collation.   *)

UserPaths == <<[key |-> "name", name |-> S_name], [key |-> "email", name |-> S_email]>>

EmailTaken(store, email) == \E i \in 1..Len(store) : store[i].email = email

\* new UserModel(userData).save(): the document written, or the error thrown
createNewUser(userData, store, id, t) ==
    IF FailingPaths(userData, UserPaths) # <<>>
    THEN [ok |-> FALSE, error |-> StoreValidationError(FailingPaths(userData, UserPaths))]
    ELSE IF EmailTaken(store, userData.email.s)
    THEN [ok |-> FALSE, error |-> DuplicateKeyError(S_email)]
    ELSE [ok |-> TRUE,
          doc |-> [id |-> id, name |-> userData.name.s, email |-> userData.email.s,
                   createdAt |-> t, updatedAt |-> t]]

----------------------------------------------------------------------------
(* The user router (routes/user.routes.ts), request by request.            *)
(*                                                                         *)
(* A request is appended to ureqs when its first handler runs.  POST stops *)
(* in the middleware (stage "done", answered 400) or goes on to the        *)
(* controller (stage "ctl"), which writes to the store and answers in one  *)
(* step: save() is one store operation.                                    *)

NameJ == <<"J">>
NameJo == <<" ", "J", "o">>
EmailA == <<"a","@","b",".","c","c">>
EmailUpperA == <<"A","@","b",".","c","c">>
EmailSpaceA == <<" ","a","@","b",".","c","c">>
EmailC == <<"c","@","b",".","c","c">>

UserBodies ==
    [name : {Undef, Str(NameJ), Str(NameJo)},
     email : {Undef, Str(EmailA), Str(EmailUpperA), Str(EmailSpaceA), Str(EmailC)}]

NoUserData == [name |-> Undef, email |-> Undef]

InitUser ==
    /\ h = NoHandler
    /\ srv = NoServer
    /\ users = <<>>
    /\ ureqs = <<>>
    /\ nextId = 1
    /\ now = 0
    /\ err = Primitive("undefined")
    /\ res = NotCalled
    /\ tasks = <<>>
    /\ treqs = <<>>

\* POST /users, first handler: validate(createUserSchema)
PostUsers(body) ==
    /\ Len(ureqs) < MaxUserReq
    /\ LET parsed == createUserSchema(body)
           v == validate(parsed)
       IN  ureqs' = Append(ureqs,
                [op |-> "createUser", raw |-> body,
                 body |-> BodyAfterValidate(body, parsed.value),
                 stage |-> IF v.next THEN "ctl" ELSE "done",
                 called |-> FALSE, svc |-> NoUserData, resp |-> v.resp])
    /\ UNCHANGED <<users, nextId, now, err, res, tasks, treqs, h, srv>>

\* POST /users, second handler: the createUser controller
createUser(i) ==
    /\ ureqs[i].op = "createUser" /\ ureqs[i].stage = "ctl"
    /\ LET userData == [name |-> ureqs[i].body.name, email |-> ureqs[i].body.email]
           r == createNewUser(userData, users, nextId, now + 1)
       IN  /\ IF r.ok
              THEN /\ users' = Append(users, r.doc)
                   /\ nextId' = nextId + 1
                   /\ now' = now + 1
              ELSE UNCHANGED <<users, nextId, now>>
           /\ ureqs' = [ureqs EXCEPT ![i] =
                [@ EXCEPT !.stage = "done", !.called = TRUE, !.svc = userData,
                          !.resp = IF r.ok
                                   THEN successResponse(OneDoc(r.doc), S_UserCreated, OK)
                                   ELSE CatchResponse(r.error)]]
    /\ UNCHANGED <<err, res, tasks, treqs, h, srv>>

\* GET /users: the getUsers controller
getUsers ==
    /\ Len(ureqs) < MaxUserReq
    /\ ureqs' = Append(ureqs,
            [op |-> "getUsers", raw |-> NoUserData, body |-> NoUserData,
             stage |-> "done", called |-> TRUE, svc |-> NoUserData,
             resp |-> successResponse(DocList(users), S_UsersRetrieved, OK)])
    /\ UNCHANGED <<users, nextId, now, err, res, tasks, treqs, h, srv>>

NextUser ==
    \/ \E body \in UserBodies : PostUsers(body)
    \/ \E i \in 1..Len(ureqs) : createUser(i)
    \/ getUsers

SpecUser == InitUser /\ [][NextUser]_vars

----------------------------------------------------------------------------
(* Claims about the user router, under SpecUser.                           *)

\* trim + lower-case
NormalizedEmail(s) == Trim(ToLowerCase(s))

\* C1: when the validate middleware accepts a request, the controller that
\* runs next sees the normalized values (trimmed strings, lower-cased email,
\* defaulted fields) in req.body: the value passed to the service equals the
\* schema's transformed output for that field.
C1_ControllerSeesNormalized ==
    \A i \in 1..Len(ureqs) :
        (ureqs[i].op = "createUser" /\ ureqs[i].called) =>
            ureqs[i].svc = createUserSchema(ureqs[i].raw).value

\* C2: creating a user whose email equals, case-insensitively and after
\* trimming, the email of a stored user yields 409; creating one whose
\* normalized email is new succeeds, and the email stored for that user is
\* lower-case and trimmed.
C2_DuplicateOrStoredNormalized ==
    [][\A i \in 1..Len(ureqs) :
          (ureqs[i].op = "createUser" /\ ureqs[i].stage = "ctl"
              /\ ureqs'[i].stage = "done") =>
             LET e == NormalizedEmail(ureqs[i].raw.email.s)
             IN  IF \E k \in 1..Len(users) : NormalizedEmail(users[k].email) = e
                 THEN ureqs'[i].resp.status = 409
                 ELSE /\ ureqs'[i].resp.success
                      /\ Len(users') = Len(users) + 1
                      /\ users'[Len(users')].email = e]_vars

\* C3: in every reachable state of the user store, after any sequence and
\* any interleaving of createUser requests, no two stored users have emails
\* that are equal after normalization (trim + lower-case).
C3_NormalizedEmailsUnique ==
    \A j, k \in 1..Len(users) :
        j # k => NormalizedEmail(users[j].email) # NormalizedEmail(users[k].email)

----------------------------------------------------------------------------
(* The task service and the Task collection.                               *)
(*                                                                         *)
(* taskSchema: title is a required String, description an optional String, *)
(* completed a Boolean defaulting to false; timestamps are kept by the     *)
(* store.  A stored task is                                                *)
(*   [id, title, description (a string or undefined), completed,           *)
(*    createdAt, updatedAt].                                               *)

TaskPaths == <<[key |-> "title", name |-> S_title]>>

\* An identity value in a path: the n-th ObjectId, or text that is none
WellFormed(n) == [hex |-> TRUE, n |-> n]
Malformed == [hex |-> FALSE, n |-> 0]

PositionOf(store, id) ==
    IF \E i \in 1..Len(store) : store[i].id = id.n
    THEN CHOOSE i \in 1..Len(store) : store[i].id = id.n
    ELSE 0

RemoveAt(store, p) == SubSeq(store, 1, p - 1) \o SubSeq(store, p + 1, Len(store))

\* TaskModel.find().sort({createdAt: -1})
RECURSIVE SortNewestFirst(_)
SortNewestFirst(store) ==
    IF store = <<>> THEN <<>>
    ELSE LET p == CHOOSE i \in 1..Len(store) :
                    \A j \in 1..Len(store) :
                        \/ store[j].createdAt < store[i].createdAt
                        \/ (store[j].createdAt = store[i].createdAt /\ i <= j)
         IN  <<store[p]>> \o SortNewestFirst(RemoveAt(store, p))
\* find() without the sort: the documents in insertion order
getAllTasks_Unsorted(store) == store

getAllTasks(store) == SortNewestFirst(store)

\* new TaskModel(taskData).save(): the document written, or the error thrown
createNewTask(taskData, id, t) ==
    IF FailingPaths(taskData, TaskPaths) # <<>>
    THEN [ok |-> FALSE, error |-> StoreValidationError(FailingPaths(taskData, TaskPaths))]
    ELSE [ok |-> TRUE,
          doc |-> [id |-> id, title |-> taskData.title.s,
                   description |-> taskData.description,
                   completed |-> IF taskData.completed.t = "undef" THEN FALSE
                                 ELSE taskData.completed.b,
                   createdAt |-> t, updatedAt |-> t]]

\* TaskModel.findById(id): a cast error, null (found = FALSE), or the document
\* findById rejecting when no document has the id
getTaskById_ThrowsWhenAbsent(store, id) ==
    IF ~id.hex THEN [ok |-> FALSE, error |-> StoreCastError]
    ELSE IF PositionOf(store, id) = 0
    THEN [ok |-> FALSE, error |-> StoreDocumentNotFoundError]
    ELSE [ok |-> TRUE, found |-> TRUE, pos |-> PositionOf(store, id)]

getTaskById(store, id) ==
    IF ~id.hex THEN [ok |-> FALSE, error |-> StoreCastError]
    ELSE [ok |-> TRUE, found |-> PositionOf(store, id) # 0, pos |-> PositionOf(store, id)]

\* The update Mongoose sends: the keys whose value is undefined are dropped,
\* the others are $set, and updatedAt is set with them.
\* An update that replaces the document: what the body leaves out is lost
MergeTask_Overwrite(doc, taskData, t) ==
    [doc EXCEPT
        !.title = IF taskData.title.t = "undef" THEN <<>> ELSE taskData.title.s,
        !.description = taskData.description,
        !.completed = IF taskData.completed.t = "undef" THEN FALSE
                      ELSE taskData.completed.b,
        !.updatedAt = t]

MergeTask(doc, taskData, t) ==
    [doc EXCEPT
        !.title = IF taskData.title.t = "undef" THEN @ ELSE taskData.title.s,
        !.description = IF taskData.description.t = "undef" THEN @
                        ELSE taskData.description,
        !.completed = IF taskData.completed.t = "undef" THEN @ ELSE taskData.completed.b,
        !.updatedAt = t]

\* TaskModel.findByIdAndUpdate(id, taskData, {new: true, runValidators: true})
updateTaskById(store, id, taskData, t) ==
    IF ~id.hex THEN [ok |-> FALSE, error |-> StoreCastError]
    ELSE IF taskData.title.t = "str" /\ RequiredFails(taskData.title)
    THEN [ok |-> FALSE, error |-> StoreValidationError(<<S_title>>)]
    ELSE [ok |-> TRUE, found |-> PositionOf(store, id) # 0, pos |-> PositionOf(store, id)]

\* TaskModel.findByIdAndDelete(id)
deleteTaskById(store, id) ==
    IF ~id.hex THEN [ok |-> FALSE, error |-> StoreCastError]
    ELSE [ok |-> TRUE, found |-> PositionOf(store, id) # 0, pos |-> PositionOf(store, id)]

\* task.completed = !task.completed on the document that was read
Toggled(doc) == [doc EXCEPT !.completed = ~doc.completed]

\* task.save() of the document read earlier: $set of the modified path and
\* of updatedAt on the stored document with that id; when no stored document
\* has the id any more, save() rejects with DocumentNotFoundError.
\* save() writing the document back as it was read, the flip lost
SaveToggled_NoFlip(store, read, t) ==
    LET p == PositionOf(store, WellFormed(read.id))
    IN  IF p = 0
        THEN [ok |-> FALSE, error |-> StoreDocumentNotFoundError]
        ELSE [ok |-> TRUE, pos |-> p,
              stored |-> [store[p] EXCEPT !.completed = read.completed,
                                          !.updatedAt = t],
              doc |-> [read EXCEPT !.updatedAt = t]]

\* save() with a version check: a document written since it was read is
\* not written again
SaveToggled_VersionChecked(store, read, t) ==
    LET p == PositionOf(store, WellFormed(read.id))
    IN  IF p = 0 \/ store[p].updatedAt # read.updatedAt
        THEN [ok |-> FALSE, error |-> StoreDocumentNotFoundError]
        ELSE [ok |-> TRUE, pos |-> p,
              stored |-> [store[p] EXCEPT !.completed = ~read.completed,
                                          !.updatedAt = t],
              doc |-> [Toggled(read) EXCEPT !.updatedAt = t]]

\* save() writing every path of the document as it was read
SaveToggled_WholeDocument(store, read, t) ==
    LET p == PositionOf(store, WellFormed(read.id))
    IN  IF p = 0
        THEN [ok |-> FALSE, error |-> StoreDocumentNotFoundError]
        ELSE [ok |-> TRUE, pos |-> p,
              stored |-> [Toggled(read) EXCEPT !.updatedAt = t],
              doc |-> [Toggled(read) EXCEPT !.updatedAt = t]]

SaveToggled(store, read, t) ==
    LET p == PositionOf(store, WellFormed(read.id))
    IN  IF p = 0
        THEN [ok |-> FALSE, error |-> StoreDocumentNotFoundError]
        ELSE [ok |-> TRUE, pos |-> p,
              stored |-> [store[p] EXCEPT !.completed = ~read.completed,
                                          !.updatedAt = t],
              doc |-> [Toggled(read) EXCEPT !.updatedAt = t]]

----------------------------------------------------------------------------
(* The task router (routes/task.routes.ts), request by request.            *)
(*                                                                         *)
(* A request is appended to treqs when its first handler runs.  A route    *)
(* with a validate middleware stops there (stage "done", answered 400) or  *)
(* goes on (stage "ctl").  A controller answers in the step of its last    *)
(* store operation; toggle has two store operations, the read (stage       *)
(* "read" after it) and the save.                                          *)

TitleSpace == <<" ">>
TitleB == <<" ", "b">>
TitleC == <<"c">>
DescD == <<" ", "d">>
DescE == <<"e">>

TaskBody(t, d, c) == [title |-> t, description |-> d, completed |-> c]

\* POST /tasks bodies: a title and a description to trim with completed left
\* out; completed given; a title of white space; an empty title; no title;
\* an empty title with a completed that is no boolean.
CreateBodies ==
    {TaskBody(Str(TitleB), Str(DescD), Undef),
     TaskBody(Str(TitleB), Undef, Bool(TRUE)),
     TaskBody(Str(TitleSpace), Undef, Undef),
     TaskBody(Str(<<>>), Undef, Undef),
     TaskBody(Undef, Undef, Undef),
     TaskBody(Str(<<>>), Undef, Num)}

\* PUT /tasks/:id bodies: nothing; each field alone; a title of white space;
\* an empty title with a description that is no string.
UpdateBodies ==
    {TaskBody(Undef, Undef, Undef),
     TaskBody(Str(TitleC), Undef, Undef),
     TaskBody(Undef, Str(DescE), Undef),
     TaskBody(Undef, Undef, Bool(TRUE)),
     TaskBody(Str(TitleSpace), Undef, Undef),
     TaskBody(Str(<<>>), Num, Undef)}

\* :id values: the first two identity values the store hands out (stored or
\* not), and text that is no identity value
IdParams == {WellFormed(1), WellFormed(2), Malformed}

NoTaskData == [title |-> Undef, description |-> Undef, completed |-> Undef]
NoTask == [id |-> 0, title |-> <<>>, description |-> Undef, completed |-> FALSE,
           createdAt |-> 0, updatedAt |-> 0]

NewTaskRequest(op, id, raw, body, v) ==
    [op |-> op, id |-> id, raw |-> raw, body |-> body,
     stage |-> IF v.next THEN "ctl" ELSE "done",
     called |-> FALSE, svc |-> NoTaskData, read |-> NoTask, resp |-> v.resp]

Answer(req, svc, resp) ==
    [req EXCEPT !.stage = "done", !.called = TRUE, !.svc = svc, !.resp = resp]

InitTask ==
    /\ h = NoHandler
    /\ srv = NoServer
    /\ tasks = <<>>
    /\ treqs = <<>>
    /\ nextId = 1
    /\ now = 0
    /\ err = Primitive("undefined")
    /\ res = NotCalled
    /\ users = <<>>
    /\ ureqs = <<>>

\* GET /tasks: the getTasks controller
getTasks ==
    /\ Len(treqs) < MaxTaskReq
    /\ treqs' = Append(treqs,
            Answer(NewTaskRequest("getTasks", Malformed, NoTaskData, NoTaskData,
                                  [next |-> TRUE, resp |-> NoResponse]),
                   NoTaskData,
                   successResponse(DocList(getAllTasks(tasks)), S_TasksRetrieved, OK)))
    /\ UNCHANGED <<tasks, nextId, now, err, res, users, ureqs, h, srv>>

\* POST /tasks, first handler: validate(createTaskSchema)
PostTasks(body) ==
    /\ Len(treqs) < MaxTaskReq
    /\ LET parsed == createTaskSchema(body)
       IN  treqs' = Append(treqs,
                NewTaskRequest("createTask", Malformed, body,
                               BodyAfterValidate(body, parsed.value), validate(parsed)))
    /\ UNCHANGED <<tasks, nextId, now, err, res, users, ureqs, h, srv>>

\* POST /tasks, second handler: the createTask controller
createTask(i) ==
    /\ treqs[i].op = "createTask" /\ treqs[i].stage = "ctl"
    /\ LET b == treqs[i].body
           taskData == [title |-> b.title, description |-> b.description,
                        completed |-> b.completed]
           r == createNewTask(taskData, nextId, now + 1)
       IN  /\ IF r.ok
              THEN /\ tasks' = Append(tasks, r.doc)
                   /\ nextId' = nextId + 1
                   /\ now' = now + 1
              ELSE UNCHANGED <<tasks, nextId, now>>
           /\ treqs' = [treqs EXCEPT ![i] =
                Answer(@, taskData,
                       IF r.ok THEN successResponse(OneDoc(r.doc), S_TaskCreated, CREATED)
                       ELSE CatchResponse(r.error))]
    /\ UNCHANGED <<err, res, users, ureqs, h, srv>>

\* GET, DELETE /tasks/:id and PATCH /tasks/:id/toggle, first handler:
\* validate(getTaskSchema) or validate(deleteTaskSchema)
ById(op, id) ==
    /\ Len(treqs) < MaxTaskReq
    /\ LET parsed == IF op = "deleteTask" THEN deleteTaskSchema(NoTaskData)
                     ELSE getTaskSchema(NoTaskData)
       IN  treqs' = Append(treqs,
                NewTaskRequest(op, id, NoTaskData,
                               BodyAfterValidate(NoTaskData, parsed.value),
                               validate(parsed)))
    /\ UNCHANGED <<tasks, nextId, now, err, res, users, ureqs, h, srv>>

\* PUT /tasks/:id, first handler: validate(updateTaskSchema)
PutTask(id, body) ==
    /\ Len(treqs) < MaxTaskReq
    /\ LET parsed == updateTaskSchema(body)
       IN  treqs' = Append(treqs,
                NewTaskRequest("updateTask", id, body,
                               BodyAfterValidate(body, parsed.value), validate(parsed)))
    /\ UNCHANGED <<tasks, nextId, now, err, res, users, ureqs, h, srv>>

NotFoundResponse == errorResponse(S_TaskNotFound, NOT_FOUND)

\* GET /tasks/:id, second handler: the getTask controller
getTask(i) ==
    /\ treqs[i].op = "getTask" /\ treqs[i].stage = "ctl"
    /\ LET r == getTaskById(tasks, treqs[i].id)
       IN  treqs' = [treqs EXCEPT ![i] =
                Answer(@, NoTaskData,
                       IF ~r.ok THEN CatchResponse(r.error)
                       ELSE IF ~r.found THEN NotFoundResponse
                       ELSE successResponse(OneDoc(tasks[r.pos]), S_TaskRetrieved, OK))]
    /\ UNCHANGED <<tasks, nextId, now, err, res, users, ureqs, h, srv>>

\* PUT /tasks/:id, second handler: the updateTask controller
updateTask(i) ==
    /\ treqs[i].op = "updateTask" /\ treqs[i].stage = "ctl"
    /\ LET b == treqs[i].body
           taskData == [title |-> b.title, description |-> b.description,
                        completed |-> b.completed]
           r == updateTaskById(tasks, treqs[i].id, taskData, now + 1)
           found == r.ok /\ r.found
           updated == MergeTask(tasks[r.pos], taskData, now + 1)
       IN  /\ IF found
              THEN /\ tasks' = [tasks EXCEPT ![r.pos] = updated]
                   /\ now' = now + 1
              ELSE UNCHANGED <<tasks, now>>
           /\ treqs' = [treqs EXCEPT ![i] =
                Answer(@, taskData,
                       IF ~r.ok THEN CatchResponse(r.error)
                       ELSE IF ~r.found THEN NotFoundResponse
                       ELSE successResponse(OneDoc(updated), S_TaskUpdated, OK))]
    /\ UNCHANGED <<nextId, err, res, users, ureqs, h, srv>>

\* deleteTask answering with the record and leaving it in the store
deleteTask_NoRemoval(i) ==
    /\ treqs[i].op = "deleteTask" /\ treqs[i].stage = "ctl"
    /\ LET r == deleteTaskById(tasks, treqs[i].id)
       IN  /\ tasks' = tasks
           /\ treqs' = [treqs EXCEPT ![i] =
                Answer(@, NoTaskData,
                       IF ~r.ok THEN CatchResponse(r.error)
                       ELSE IF ~r.found THEN NotFoundResponse
                       ELSE successResponse(OneDoc(tasks[r.pos]), S_TaskDeleted, OK))]
    /\ UNCHANGED <<nextId, now, err, res, users, ureqs, h, srv>>

\* DELETE /tasks/:id, second handler: the deleteTask controller
deleteTask(i) ==
    /\ treqs[i].op = "deleteTask" /\ treqs[i].stage = "ctl"
    /\ LET r == deleteTaskById(tasks, treqs[i].id)
           found == r.ok /\ r.found
       IN  /\ tasks' = IF found THEN RemoveAt(tasks, r.pos) ELSE tasks
           /\ treqs' = [treqs EXCEPT ![i] =
                Answer(@, NoTaskData,
                       IF ~r.ok THEN CatchResponse(r.error)
                       ELSE IF ~r.found THEN NotFoundResponse
                       ELSE successResponse(OneDoc(tasks[r.pos]), S_TaskDeleted, OK))]
    /\ UNCHANGED <<nextId, now, err, res, users, ureqs, h, srv>>

\* PATCH /tasks/:id/toggle, second handler, up to the first await of
\* toggleTaskCompletion: TaskModel.findById(id)
toggleTaskRead(i) ==
    /\ treqs[i].op = "toggleTask" /\ treqs[i].stage = "ctl"
    /\ LET r == getTaskById(tasks, treqs[i].id)
       IN  treqs' = [treqs EXCEPT ![i] =
                IF ~r.ok THEN Answer(@, NoTaskData, CatchResponse(r.error))
                ELSE IF ~r.found THEN Answer(@, NoTaskData, NotFoundResponse)
                ELSE [@ EXCEPT !.stage = "read", !.called = TRUE,
                               !.read = tasks[r.pos]]]
    /\ UNCHANGED <<tasks, nextId, now, err, res, users, ureqs, h, srv>>

\* save() writing a document that is no longer stored back into the store
toggleTaskSave_Upsert(i) ==
    /\ treqs[i].op = "toggleTask" /\ treqs[i].stage = "read"
    /\ LET r == SaveToggled(tasks, treqs[i].read, now + 1)
           doc == [Toggled(treqs[i].read) EXCEPT !.updatedAt = now + 1]
       IN  /\ tasks' = IF r.ok THEN [tasks EXCEPT ![r.pos] = r.stored]
                       ELSE Append(tasks, doc)
           /\ now' = now + 1
           /\ treqs' = [treqs EXCEPT ![i] =
                Answer(@, NoTaskData,
                       successResponse(OneDoc(IF r.ok THEN r.doc ELSE doc),
                                       S_TaskToggled, OK))]
    /\ UNCHANGED <<nextId, err, res, users, ureqs, h, srv>>

\* ... and from there on: the flip, task.save(), the answer
toggleTaskSave(i) ==
    /\ treqs[i].op = "toggleTask" /\ treqs[i].stage = "read"
    /\ LET r == SaveToggled(tasks, treqs[i].read, now + 1)
       IN  /\ IF r.ok
              THEN /\ tasks' = [tasks EXCEPT ![r.pos] = r.stored]
                   /\ now' = now + 1
              ELSE UNCHANGED <<tasks, now>>
           /\ treqs' = [treqs EXCEPT ![i] =
                Answer(@, NoTaskData,
                       IF r.ok THEN successResponse(OneDoc(r.doc), S_TaskToggled, OK)
                       ELSE CatchResponse(r.error))]
    /\ UNCHANGED <<nextId, err, res, users, ureqs, h, srv>>

NextTask ==
    \/ getTasks
    \/ \E body \in CreateBodies : PostTasks(body)
    \/ \E op \in {"getTask", "deleteTask", "toggleTask"}, id \in IdParams : ById(op, id)
    \/ \E id \in IdParams, body \in UpdateBodies : PutTask(id, body)
    \/ \E i \in 1..Len(treqs) : createTask(i)
    \/ \E i \in 1..Len(treqs) : getTask(i)
    \/ \E i \in 1..Len(treqs) : updateTask(i)
    \/ \E i \in 1..Len(treqs) : deleteTask(i)
    \/ \E i \in 1..Len(treqs) : toggleTaskRead(i)
    \/ \E i \in 1..Len(treqs) : toggleTaskSave(i)

SpecTask == InitTask /\ [][NextTask]_vars

----------------------------------------------------------------------------
(* Claims about the task router, under SpecTask.                           *)

IsBlank(s) == \A k \in 1..Len(s) : s[k] = " "

\* C4: a POST /tasks request whose title is the empty string or consists
\* only of white space is answered 400 by the validation stage, and the
\* createTask controller and the store write are never reached for it.
C4_BlankTitleRejected ==
    \A i \in 1..Len(treqs) :
        (treqs[i].op = "createTask" /\ treqs[i].raw.title.t = "str"
            /\ IsBlank(treqs[i].raw.title.s)) =>
            /\ treqs[i].stage # "read"
            /\ treqs[i].stage = "done" =>
                  (treqs[i].resp.status = 400 /\ ~treqs[i].called)

\* C5: in every reachable state of the task store, after any sequence of
\* create, update, toggle and delete requests, every stored task has a title
\* that is non-empty after trimming, titles written by PUT /tasks/:id
\* included.
C5_StoredTitlesNotBlank ==
    \A k \in 1..Len(tasks) : ~IsBlank(tasks[k].title)

\* The fields of a create or update body that the schema of the route
\* rejects, each with the message the schema gives for it.
TitleFails(r) ==
    \/ (r.op = "createTask" /\ r.raw.title.t # "str")
    \/ (r.op = "updateTask" /\ r.raw.title.t \notin {"undef", "str"})
    \/ (r.raw.title.t = "str" /\ Len(r.raw.title.s) = 0)
FailingFields(r) ==
    IF r.op \notin {"createTask", "updateTask"} THEN {}
    ELSE (IF TitleFails(r)
          THEN {[field |-> S_body \o <<".">> \o S_title,
                 message |-> IF r.raw.title.t = "str" THEN S_TitleMin
                             ELSE IF r.op = "createTask" THEN S_TitleRequired
                             ELSE ExpectedMessage(S_string, r.raw.title)]}
          ELSE {})
         \cup (IF r.raw.description.t \notin {"undef", "str"}
               THEN {[field |-> S_body \o <<".">> \o S_description,
                      message |-> ExpectedMessage(S_string, r.raw.description)]}
               ELSE {})
         \cup (IF r.raw.completed.t \notin {"undef", "bool"}
               THEN {[field |-> S_body \o <<".">> \o S_completed,
                      message |-> ExpectedMessage(S_boolean, r.raw.completed)]}
               ELSE {})

RejectedAnswer(r) ==
    /\ r.stage = "done" /\ ~r.called
    /\ r.svc = NoTaskData /\ r.read = NoTask
    /\ r.resp.status = 400 /\ ~r.resp.success
    /\ {r.resp.errors[k] : k \in 1..Len(r.resp.errors)} = FailingFields(r)

Stored(store, n) == \E k \in 1..Len(store) : store[k].id = n
TaskWithId(store, n) == store[CHOOSE k \in 1..Len(store) : store[k].id = n]

\* C16: a toggle request for an id that is not in the task store is answered
\* 404 'Task not found'; a toggle request for a stored task whose completed
\* is false is answered 200 with completed = true in the returned record
\* (and true becomes false), and the stored record holds the flipped value
\* afterwards.
C16_ToggleFlipsOr404 ==
    [][\A i \in 1..Len(treqs) :
          /\ (treqs[i].op = "toggleTask" /\ treqs[i].stage = "ctl"
                  /\ treqs'[i] # treqs[i]
                  /\ treqs[i].id.hex /\ ~Stored(tasks, treqs[i].id.n)) =>
                (/\ treqs'[i].stage = "done"
                 /\ treqs'[i].resp.status = 404 /\ ~treqs'[i].resp.success
                 /\ treqs'[i].resp.message = S_TaskNotFound
                 /\ tasks' = tasks)
          /\ (treqs[i].op = "toggleTask" /\ treqs[i].stage = "ctl"
                  /\ treqs'[i] # treqs[i]
                  /\ treqs[i].id.hex /\ Stored(tasks, treqs[i].id.n)) =>
                (/\ treqs'[i].stage = "read"
                 /\ treqs'[i].read = TaskWithId(tasks, treqs[i].id.n))
          /\ (treqs[i].op = "toggleTask" /\ treqs[i].stage = "read"
                  /\ treqs'[i] # treqs[i]
                  /\ Stored(tasks, treqs[i].read.id)) =>
                (/\ treqs'[i].stage = "done"
                 /\ treqs'[i].resp.status = 200 /\ treqs'[i].resp.success
                 /\ treqs'[i].resp.data.k = "doc"
                 /\ treqs'[i].resp.data.docs[1].id = treqs[i].read.id
                 /\ treqs'[i].resp.data.docs[1].completed = ~treqs[i].read.completed
                 /\ Stored(tasks', treqs[i].read.id)
                 /\ TaskWithId(tasks', treqs[i].read.id).completed
                        = ~treqs[i].read.completed)]_vars

\* A toggle of a stored task whose completed was false was answered 200
\* with completed = true, and the stored record is completed.
C16_Witness ==
    \E i \in 1..Len(treqs) :
        /\ treqs[i].op = "toggleTask" /\ treqs[i].stage = "done"
        /\ ~treqs[i].read.completed /\ treqs[i].read.id # 0
        /\ treqs[i].resp.status = 200
        /\ treqs[i].resp.data.docs[1].completed
        /\ Stored(tasks, treqs[i].read.id)
        /\ TaskWithId(tasks, treqs[i].read.id).completed

DeleteCompletes(i) ==
    /\ i \in 1..Len(treqs)
    /\ treqs[i].op = "deleteTask" /\ treqs[i].stage = "ctl" /\ treqs[i].id.hex
    /\ treqs'[i].stage = "done"
DeletedBefore(n) ==
    \E j \in 1..Len(treqs) :
        /\ treqs[j].op = "deleteTask" /\ treqs[j].stage = "done"
        /\ treqs[j].id = WellFormed(n) /\ treqs[j].resp.status = 200

\* C17: of two successive delete requests on the same id of a stored task,
\* the first is answered 200 with the deleted record as data and the id is
\* absent from the store after it; the second is answered 404.
C17_DeleteTwice ==
    [][\A i \in 1..Len(treqs) :
          DeleteCompletes(i) =>
             LET n == treqs[i].id.n
             IN  /\ (Stored(tasks, n) /\ ~DeletedBefore(n)) =>
                       (/\ treqs'[i].resp.status = 200 /\ treqs'[i].resp.success
                        /\ treqs'[i].resp.data = OneDoc(TaskWithId(tasks, n))
                        /\ ~Stored(tasks', n)
                        /\ Len(tasks') = Len(tasks) - 1)
                 /\ DeletedBefore(n) =>
                       (/\ treqs'[i].resp.status = 404 /\ ~treqs'[i].resp.success
                        /\ treqs'[i].resp.data = NoData
                        /\ tasks' = tasks)]_vars

\* Two deletes of the same task are answered: the first 200 with the
\* record, the second 404, and the task is gone.
C17_Witness ==
    \E i, j \in 1..Len(treqs) :
        /\ i < j
        /\ treqs[i].op = "deleteTask" /\ treqs[j].op = "deleteTask"
        /\ treqs[i].id = WellFormed(1) /\ treqs[j].id = WellFormed(1)
        /\ treqs[i].stage = "done" /\ treqs[j].stage = "done"
        /\ treqs[i].resp.status = 200 /\ treqs[i].resp.data.k = "doc"
        /\ treqs[j].resp.status = 404
        /\ ~Stored(tasks, 1)

\* The record was written after request i read it.
StaleRead(i) ==
    /\ Stored(tasks, treqs[i].read.id)
    /\ TaskWithId(tasks, treqs[i].read.id).updatedAt # treqs[i].read.updatedAt

\* C18: the toggle is a read followed by a write, and nothing rejects a
\* stale write: a toggle whose record was written by another toggle or by an
\* update after it was read is still answered 200, and the stored completed
\* becomes the negation of the value it read, whatever the store held (last
\* write wins).  With two toggles that both read before either writes, the
\* stored value ends flipped once.
C18_StaleToggleWins ==
    [][\A i \in 1..Len(treqs) :
          (treqs[i].op = "toggleTask" /\ treqs[i].stage = "read"
              /\ treqs'[i] # treqs[i] /\ StaleRead(i)) =>
             (/\ treqs'[i].resp.status = 200
              /\ treqs'[i].resp.data.docs[1].completed = ~treqs[i].read.completed
              /\ TaskWithId(tasks', treqs[i].read.id).completed
                     = ~treqs[i].read.completed)]_vars

\* Two toggles read the same record before either wrote, both are answered
\* 200, and the stored completed is flipped once.
C18_Witness ==
    \E i, j \in 1..Len(treqs) :
        /\ i # j
        /\ treqs[i].op = "toggleTask" /\ treqs[j].op = "toggleTask"
        /\ treqs[i].stage = "done" /\ treqs[j].stage = "done"
        /\ treqs[i].read.id # 0 /\ treqs[i].read = treqs[j].read
        /\ treqs[i].resp.status = 200 /\ treqs[j].resp.status = 200
        /\ Stored(tasks, treqs[i].read.id)
        /\ TaskWithId(tasks, treqs[i].read.id).completed = ~treqs[i].read.completed

----------------------------------------------------------------------------
(* One request in its handlers, statement by statement: the validate       *)
(* middleware where the route has one, then the controller's try block,    *)
(* its not-found return, its success write and its catch block.  What the  *)
(* schema, the service and the JSON writer do with the request is drawn at *)
(* the start; written is the sequence of statuses sent to the transport.   *)

\* A fault of the store that is none of the kinds mapError knows: the
\* connection is gone.
StoreNetworkError ==
    [kind |-> "error", code |-> NoProp, keyValue |-> NoKeyValue,
     name |-> "MongoNetworkError", errors |-> NoErrors, statusCode |-> NoProp,
     message |-> S_Boom]

\* res.json(...) throwing while it serialises the payload, before anything
\* is sent: a TypeError.
SerializationError ==
    [kind |-> "error", code |-> NoProp, keyValue |-> NoKeyValue,
     name |-> "TypeError", errors |-> NoErrors, statusCode |-> NoProp,
     message |-> S_Boom]

NoFault == Primitive("undefined")

\* The routes: whether a validate middleware comes first and whether its
\* schema can reject, whether the controller tests for the not-found
\* sentinel, the status of its success write, the faults its service can
\* raise.
Route(name, validated, rejects, sentinel, status, faults) ==
    [name |-> name, validated |-> validated, rejects |-> rejects,
     sentinel |-> sentinel, status |-> status, faults |-> faults]
Routes ==
    {Route("getTasks", FALSE, FALSE, FALSE, OK, {StoreNetworkError}),
     Route("createTask", TRUE, TRUE, FALSE, CREATED,
           {StoreValidationError(<<S_title>>), StoreNetworkError}),
     Route("getTask", TRUE, FALSE, TRUE, OK, {StoreCastError, StoreNetworkError}),
     Route("updateTask", TRUE, TRUE, TRUE, OK,
           {StoreCastError, StoreValidationError(<<S_title>>), StoreNetworkError}),
     Route("deleteTask", TRUE, FALSE, TRUE, OK, {StoreCastError, StoreNetworkError}),
     Route("toggleTask", TRUE, FALSE, TRUE, OK,
           {StoreCastError, StoreDocumentNotFoundError, StoreNetworkError}),
     Route("getUsers", FALSE, FALSE, FALSE, OK, {StoreNetworkError}),
     Route("createUser", TRUE, TRUE, FALSE, OK,
           {StoreValidationError(<<S_name>>), DuplicateKeyError(S_email),
            StoreNetworkError})}

AllFaults == UNION {r.faults : r \in Routes}

InitHandler ==
    /\ h \in {x \in [route : Routes, parse : {"ok", "zod"},
                      outcome : {"doc", "null", "throw"},
                      fault : AllFaults \cup {NoFault}, jsonThrows : BOOLEAN,
                      pc : {"validate", "controller"},
                      error : {NoFault}, written : {<<>>}] :
                 /\ x.pc = (IF x.route.validated THEN "validate" ELSE "controller")
                 /\ x.parse = "zod" => x.route.rejects
                 /\ x.outcome = "null" => x.route.sentinel
                 /\ x.outcome = "throw" <=> x.fault # NoFault
                 /\ x.fault \in x.route.faults \cup {NoFault}}
    /\ srv = NoServer
    /\ err = Primitive("undefined")
    /\ res = NotCalled
    /\ users = <<>> /\ ureqs = <<>>
    /\ tasks = <<>> /\ treqs = <<>>
    /\ nextId = 1 /\ now = 0

Write(status) == Append(h.written, status)

\* validate(schema): await parseAsync, then next() or the 400 answer
RunValidate ==
    /\ h.pc = "validate"
    /\ LET v == validate([issues |-> IF h.parse = "zod"
                                     THEN <<[field |-> S_body, message |-> S_Boom]>>
                                     ELSE <<>>])
       IN  h' = [h EXCEPT !.pc = IF v.next THEN "controller" ELSE "end",
                          !.written = IF v.resp = NoResponse THEN @
                                      ELSE Write(v.resp.status)]
    /\ UNCHANGED <<err, res, users, ureqs, tasks, treqs, nextId, now, srv>>

\* try { const x = await service(...): the value, the sentinel, or a throw
\* into the catch block
AwaitService ==
    /\ h.pc = "controller"
    /\ h' = [h EXCEPT !.pc = IF h.outcome = "throw" THEN "catch"
                             ELSE IF h.outcome = "null" THEN "notfound"
                             ELSE "success",
                      !.error = h.fault]
    /\ UNCHANGED <<err, res, users, ureqs, tasks, treqs, nextId, now, srv>>

\* the test that answers 404 and goes on to the success write
NotFoundReturn_FallsThrough ==
    /\ h.pc = "notfound"
    /\ h' = [h EXCEPT !.pc = "success", !.written = Write(NotFoundResponse.status)]
    /\ UNCHANGED <<err, res, users, ureqs, tasks, treqs, nextId, now, srv>>

\* if (!x) { return errorResponse(res, 'Task not found', NOT_FOUND); }
NotFoundReturn ==
    /\ h.pc = "notfound"
    /\ h' = [h EXCEPT !.pc = "end", !.written = Write(NotFoundResponse.status)]
    /\ UNCHANGED <<err, res, users, ureqs, tasks, treqs, nextId, now, srv>>

\* successResponse(res, x, message, status), the last statement of the try
\* block: the write, or a throw into the catch block
WriteSuccess ==
    /\ h.pc = "success"
    /\ h' = IF h.jsonThrows
            THEN [h EXCEPT !.pc = "catch", !.error = SerializationError]
            ELSE [h EXCEPT !.pc = "end",
                           !.written = Write(successResponse(NoData, <<>>,
                                                             h.route.status).status)]
    /\ UNCHANGED <<err, res, users, ureqs, tasks, treqs, nextId, now, srv>>

\* catch (error) { mapError(error); errorResponse(res, message, statusCode) }
\* A throw of mapError leaves the handler with nothing written.
CatchBlock ==
    /\ h.pc = "catch"
    /\ LET r == CatchResponse(h.error)
       IN  h' = IF r = NoResponse THEN [h EXCEPT !.pc = "rejected"]
                ELSE [h EXCEPT !.pc = "end", !.written = Write(r.status)]
    /\ UNCHANGED <<err, res, users, ureqs, tasks, treqs, nextId, now, srv>>

NextHandler ==
    \/ RunValidate
    \/ AwaitService
    \/ NotFoundReturn
    \/ WriteSuccess
    \/ CatchBlock

SpecHandler == InitHandler /\ [][NextHandler]_vars

\* C19: for every request that reaches the validate middleware or a
\* controller, on every path (validation failure, not-found sentinel,
\* success, store fault, a success write that fails inside the try block),
\* exactly one response is written: none before the handlers are through,
\* one when they are, never two, and no handler is left without a next step
\* before it has answered.
C19_ExactlyOneWrite ==
    /\ h.pc = "end" => Len(h.written) = 1
    /\ h.pc # "end" => (Len(h.written) = 0 /\ ENABLED NextHandler)

\* The success write failed in the try block and the catch block answered.
C19_Witness ==
    /\ h.pc = "end" /\ h.outcome = "doc" /\ h.jsonThrows
    /\ h.written = <<500>>

----------------------------------------------------------------------------
(* The not-found sentinel, under SpecTask.                                 *)

ByIdOps == {"getTask", "updateTask", "deleteTask", "toggleTask"}

\* What the service of request r returns on the store as it is
ServiceResult(r) ==
    IF r.op = "updateTask"
    THEN updateTaskById(tasks, r.id, [title |-> r.body.title,
                                      description |-> r.body.description,
                                      completed |-> r.body.completed], now + 1)
    ELSE IF r.op = "deleteTask" THEN deleteTaskById(tasks, r.id)
    ELSE getTaskById(tasks, r.id)

\* C20: for get, update, delete and toggle on a well-formed id that is not
\* in the task store, the service returns the not-found sentinel without
\* throwing, the controller answers 404 'Task not found' itself (the answer
\* is not one the catch block gives for a fault of the store), and the store
\* is left unchanged.
C20_AbsentIdIs404 ==
    [][\A i \in 1..Len(treqs) :
          (treqs[i].op \in ByIdOps /\ treqs[i].stage = "ctl"
              /\ treqs'[i] # treqs[i]
              /\ treqs[i].id.hex /\ ~Stored(tasks, treqs[i].id.n)) =>
             (/\ ServiceResult(treqs[i]).ok /\ ~ServiceResult(treqs[i]).found
              /\ treqs'[i].stage = "done"
              /\ treqs'[i].resp.status = 404 /\ ~treqs'[i].resp.success
              /\ treqs'[i].resp.message = S_TaskNotFound
              /\ treqs'[i].resp.data = NoData
              /\ \A e \in AllFaults : treqs'[i].resp # CatchResponse(e)
              /\ tasks' = tasks)]_vars

\* With a task in the store, an update (with a body that would change it)
\* and a delete of an id that is not stored are answered 404.
C20_Witness ==
    /\ tasks # <<>>
    /\ \E i, j \in 1..Len(treqs) :
          /\ treqs[i].op = "updateTask" /\ treqs[j].op = "deleteTask"
          /\ treqs[i].raw.title.t = "str"
          /\ treqs[i].id.hex /\ ~Stored(tasks, treqs[i].id.n)
          /\ treqs[j].id.hex /\ ~Stored(tasks, treqs[j].id.n)
          /\ treqs[i].stage = "done" /\ treqs[i].resp.status = 404
          /\ treqs[j].stage = "done" /\ treqs[j].resp.status = 404

----------------------------------------------------------------------------
(* Malformed identity values, under SpecTask.                              *)

\* C21: a GET /tasks/:id request whose id is no identity value of the store
\* passes the validation stage, raises a cast error in the service and is
\* answered 400 'Invalid data format', not 404 or 500; the same for update,
\* delete and toggle.
C21_MalformedIdIs400 ==
    \A i \in 1..Len(treqs) :
        (treqs[i].op \in ByIdOps /\ ~treqs[i].id.hex
            /\ FailingFields(treqs[i]) = {}) =>
            /\ treqs[i].stage \in {"ctl", "done"}
            /\ ServiceResult(treqs[i]) = [ok |-> FALSE, error |-> StoreCastError]
            /\ treqs[i].stage = "done" =>
                  (/\ treqs[i].called
                   /\ treqs[i].resp.status = 400 /\ ~treqs[i].resp.success
                   /\ treqs[i].resp.message = S_InvalidDataFormat
                   /\ treqs[i].resp.errors = <<>>
                   /\ treqs[i].resp.data = NoData)

\* A get, an update and a toggle with a malformed id were answered 400.
C21_Witness ==
    \E i, j, k \in 1..Len(treqs) :
        /\ treqs[i].op = "getTask" /\ treqs[j].op = "updateTask"
        /\ treqs[k].op = "toggleTask"
        /\ \A n \in {i, j, k} :
              /\ ~treqs[n].id.hex /\ treqs[n].stage = "done" /\ treqs[n].called
              /\ treqs[n].resp.status = 400
              /\ treqs[n].resp.message = S_InvalidDataFormat

----------------------------------------------------------------------------
(* Updates, under SpecTask.                                                *)

UpdateCompletes(i) ==
    /\ i \in 1..Len(treqs)
    /\ treqs[i].op = "updateTask" /\ treqs[i].stage = "ctl"
    /\ treqs'[i].stage = "done"
    /\ treqs[i].id.hex /\ Stored(tasks, treqs[i].id.n)

\* C22: PUT /tasks/:id is a partial merge: for a stored task, every field
\* among title, description and completed that the request body leaves out
\* keeps its stored value, every field it gives takes the request value,
\* and the response carries the record after the update.
C22_PartialMerge ==
    [][\A i \in 1..Len(treqs) :
          UpdateCompletes(i) =>
             LET before == TaskWithId(tasks, treqs[i].id.n)
                 after == TaskWithId(tasks', treqs[i].id.n)
                 given == treqs[i].raw
             IN  /\ Stored(tasks', treqs[i].id.n)
                 /\ after.title = (IF given.title.t = "undef" THEN before.title
                                   ELSE given.title.s)
                 /\ after.description =
                        (IF given.description.t = "undef" THEN before.description
                         ELSE given.description)
                 /\ after.completed =
                        (IF given.completed.t = "undef" THEN before.completed
                         ELSE given.completed.b)
                 /\ after.id = before.id /\ after.createdAt = before.createdAt
                 /\ treqs'[i].resp.status = 200 /\ treqs'[i].resp.success
                 /\ treqs'[i].resp.data = OneDoc(after)]_vars

\* A task created with a description and completed = false was updated
\* twice, with a title alone and with completed alone: it holds the new
\* title, completed = true and the description it was created with.
C22_Witness ==
    \E i, j \in 1..Len(treqs) :
        /\ treqs[i].op = "updateTask" /\ treqs[j].op = "updateTask"
        /\ treqs[i].raw = TaskBody(Str(TitleC), Undef, Undef)
        /\ treqs[j].raw = TaskBody(Undef, Undef, Bool(TRUE))
        /\ treqs[i].resp.status = 200 /\ treqs[j].resp.status = 200
        /\ treqs[i].id = WellFormed(1) /\ treqs[j].id = WellFormed(1)
        /\ Stored(tasks, 1)
        /\ TaskWithId(tasks, 1).title = TitleC
        /\ TaskWithId(tasks, 1).description = Str(DescD)
        /\ TaskWithId(tasks, 1).completed

----------------------------------------------------------------------------
(* The list requests.                                                      *)

SameRecords(docs, store) ==
    /\ Len(docs) = Len(store)
    /\ {docs[k] : k \in 1..Len(docs)} = {store[k] : k \in 1..Len(store)}

----------------------------------------------------------------------------
(* Deletes against the other operations, under SpecTask.                   *)

\* The ids the store has given out so far
Issued == 1..(nextId - 1)

\* C25: a deleted task never reappears: once the delete of X has taken
\* effect, X is in the store in no later state, whatever operations follow;
\* a toggle that read X before the delete and writes after it ends with an
\* error response, not with 200, and leaves the store as it was.
C25_DeletedStaysDeleted ==
    [][/\ \A n \in Issued : ~Stored(tasks, n) => ~Stored(tasks', n)
       /\ \A i \in 1..Len(treqs) :
             (treqs[i].op = "toggleTask" /\ treqs[i].stage = "read"
                 /\ treqs'[i] # treqs[i] /\ ~Stored(tasks, treqs[i].read.id)) =>
                (/\ treqs'[i].stage = "done"
                 /\ treqs'[i].resp.status >= 400 /\ ~treqs'[i].resp.success
                 /\ treqs'[i].resp.data = NoData
                 /\ tasks' = tasks)]_vars

\* A toggle read task 1, a delete of task 1 was answered 200 with the record
\* the toggle had read, and the toggle then ended with an error response,
\* task 1 being absent.
C25_Witness ==
    \E i, j \in 1..Len(treqs) :
        /\ treqs[i].op = "toggleTask" /\ treqs[i].stage = "done"
        /\ treqs[i].read.id = 1 /\ treqs[i].resp.status >= 400
        /\ treqs[j].op = "deleteTask" /\ treqs[j].stage = "done"
        /\ treqs[j].id = WellFormed(1) /\ treqs[j].resp.status = 200
        /\ treqs[j].resp.data = OneDoc(treqs[i].read)
        /\ ~Stored(tasks, 1)

\* The answered delete requests on id n, and those of them answered 200
DeletesOf(n) ==
    {i \in 1..Len(treqs) : /\ treqs[i].op = "deleteTask" /\ treqs[i].stage = "done"
                           /\ treqs[i].id = WellFormed(n)}
Winners(n) == {i \in DeletesOf(n) : treqs[i].resp.status = 200}

\* C26: among concurrent deletes of the same stored id exactly one is
\* answered 200 with the deleted record and every other one 404, in every
\* interleaving: however the deletes of an id are ordered, one of them is
\* answered 200 exactly when the task has left the store, and all the others
\* are answered 404 without data.
C26_OneDeleteWins ==
    \A n \in 1..MaxTaskReq :
        /\ Cardinality(Winners(n)) = IF n \in Issued /\ ~Stored(tasks, n) THEN 1 ELSE 0
        /\ \A i \in Winners(n) :
              /\ treqs[i].resp.success /\ treqs[i].resp.data.k = "doc"
              /\ treqs[i].resp.data.docs[1].id = n
        /\ \A i \in DeletesOf(n) \ Winners(n) :
              /\ treqs[i].resp.status = 404 /\ ~treqs[i].resp.success
              /\ treqs[i].resp.data = NoData

\* Two deletes of task 1 were in flight together: the one that arrived
\* later was answered 200 with the record, the earlier one 404.
C26_Witness ==
    \E i, j \in 1..Len(treqs) :
        /\ i < j /\ 1 \in Issued /\ ~Stored(tasks, 1)
        /\ i \in DeletesOf(1) /\ j \in DeletesOf(1)
        /\ treqs[j].resp.status = 200 /\ treqs[j].resp.data.docs[1].id = 1
        /\ treqs[i].resp.status = 404

\* Request i, an update, a delete or a toggle, runs a controller step
Acts(i) ==
    /\ i \in 1..Len(treqs)
    /\ treqs[i].op \in {"updateTask", "deleteTask", "toggleTask"}
    /\ treqs[i].stage \in {"ctl", "read"}
    /\ treqs'[i] # treqs[i]

\* The id request i works on: the one it read, or the one in its path
TargetOf(i) == IF treqs[i].stage = "read" THEN treqs[i].read.id ELSE treqs[i].id.n

\* C27: an update, a toggle or a delete on X leaves every other stored
\* task unchanged and never adds a record; a toggle changes only the
\* completed flag of X (and updatedAt) and leaves its title and description
\* as stored.
C27_OnlyTheTarget ==
    [][\A i \in 1..Len(treqs) :
          Acts(i) =>
             /\ \A n \in Issued \ {TargetOf(i)} :
                   /\ Stored(tasks', n) = Stored(tasks, n)
                   /\ Stored(tasks, n) => TaskWithId(tasks', n) = TaskWithId(tasks, n)
             /\ Len(tasks') <= Len(tasks)
             /\ \A k \in 1..Len(tasks') : Stored(tasks, tasks'[k].id)
             /\ nextId' = nextId
             /\ (treqs[i].op = "toggleTask" /\ Stored(tasks, TargetOf(i))) =>
                   /\ Len(tasks') = Len(tasks)
                   /\ Stored(tasks', TargetOf(i))
                   /\ LET before == TaskWithId(tasks, TargetOf(i))
                          after == TaskWithId(tasks', TargetOf(i))
                      IN  /\ after.title = before.title
                          /\ after.description = before.description
                          /\ after.createdAt = before.createdAt
                          /\ after.id = before.id]_vars

\* A toggle read a task, an update then gave the task another title, and the
\* toggle's save was the last write: the stored task has the flipped flag
\* and the title of the update, not the one the toggle had read.
C27_Witness ==
    \E i \in 1..Len(treqs) :
        /\ treqs[i].op = "toggleTask" /\ treqs[i].stage = "done"
        /\ treqs[i].resp.status = 200 /\ Stored(tasks, treqs[i].read.id)
        /\ LET stored == TaskWithId(tasks, treqs[i].read.id)
           IN  /\ stored.updatedAt = treqs[i].resp.data.docs[1].updatedAt
               /\ stored.completed = ~treqs[i].read.completed
               /\ stored.title # treqs[i].read.title

----------------------------------------------------------------------------
(* The server process (server.ts, config/database.ts).                      *)
(*                                                                         *)
(* The module body of server.ts builds the application's layers and calls  *)
(* connectDB(); the listen call is in the then-callback of its promise.    *)
(* Clients may send a request at any moment; one sent while the process    *)
(* does not listen is refused by the operating system and reaches no       *)
(* layer.  An accepted request goes through the layers in the order of     *)
(* their registration; one that no layer answers gets the 404 of           *)
(* Express's final handler.  A path is the sequence of its segments, id    *)
(* standing for the :id parameter.                                         *)

Methods == {"GET", "POST", "PATCH"}
Paths == {<<>>, <<"tasks">>, <<"tasks", "id">>, <<"tasks", "id", "toggle">>, <<"users">>}

RouterRoute(method, path, chain) == [method |-> method, path |-> path, chain |-> chain]

\* routes/task.routes.ts
taskRoutes ==
    << RouterRoute("GET", <<>>, <<"getTasks">>),
       RouterRoute("POST", <<>>, <<"validate(createTaskSchema)", "createTask">>),
       RouterRoute("GET", <<"id">>, <<"validate(getTaskSchema)", "getTask">>),
       RouterRoute("PUT", <<"id">>, <<"validate(updateTaskSchema)", "updateTask">>),
       RouterRoute("DELETE", <<"id">>, <<"validate(deleteTaskSchema)", "deleteTask">>),
       RouterRoute("PATCH", <<"id", "toggle">>, <<"validate(getTaskSchema)", "toggleTask">>) >>

\* routes/user.routes.ts
userRoutes ==
    << RouterRoute("GET", <<>>, <<"getUsers">>),
       RouterRoute("POST", <<>>, <<"validate(createUserSchema)", "createUser">>) >>

RouterNamed(name) == IF name = "taskRoutes" THEN taskRoutes ELSE userRoutes

\* The layers of the application that can answer a request, in the order
\* server.ts registers them: app.get("/") and app.use("/tasks", taskRoutes)
app ==
    << [kind |-> "get", path |-> <<>>, target |-> "root"],
       [kind |-> "use", path |-> <<"tasks">>, target |-> "taskRoutes"] >>

IsPrefix(p, q) == Len(p) <= Len(q) /\ SubSeq(q, 1, Len(p)) = p

\* The first route of a router that matches, 0 when none does
RouteIn(table, method, rest) ==
    LET hits == {k \in 1..Len(table) : table[k].method = method /\ table[k].path = rest}
    IN  IF hits = {} THEN 0 ELSE CHOOSE k \in hits : \A m \in hits : k <= m

FinalHandler == [target |-> "finalhandler", chain |-> <<>>, status |-> NOT_FOUND]

\* Express's dispatch from layer k on: the first layer that answers
RECURSIVE DispatchFrom(_, _, _)
DispatchFrom(k, method, path) ==
    IF k > Len(app) THEN FinalHandler
    ELSE LET layer == app[k]
         IN  IF layer.kind = "get"
             THEN IF method = "GET" /\ path = layer.path
                  THEN [target |-> layer.target, chain |-> <<layer.target>>, status |-> OK]
                  ELSE DispatchFrom(k + 1, method, path)
             ELSE IF ~IsPrefix(layer.path, path)
                  THEN DispatchFrom(k + 1, method, path)
                  ELSE LET table == RouterNamed(layer.target)
                           rest == SubSeq(path, Len(layer.path) + 1, Len(path))
                           r == RouteIn(table, method, rest)
                       IN  IF r = 0 THEN DispatchFrom(k + 1, method, path)
                           ELSE [target |-> layer.target, chain |-> table[r].chain,
                                 status |-> 0]

Dispatch(method, path) == DispatchFrom(1, method, path)

NotDispatched == [target |-> "none", chain |-> <<>>, status |-> 0]

\* server.ts has run up to the call of connectDB()
InitServer ==
    /\ srv = [db |-> "connecting", proc |-> "running", listening |-> FALSE,
              reqs |-> <<>>]
    /\ h = NoHandler
    /\ err = Primitive("undefined")
    /\ res = NotCalled
    /\ users = <<>>
    /\ ureqs = <<>>
    /\ tasks = <<>>
    /\ treqs = <<>>
    /\ nextId = 1
    /\ now = 0

\* connectDB: mongoose.connect resolves, and connectDB's promise with it
connectResolves ==
    /\ srv.proc = "running" /\ srv.db = "connecting"
    /\ srv' = [srv EXCEPT !.db = "connected"]
    /\ UNCHANGED <<err, res, users, ureqs, tasks, treqs, nextId, now, h>>

\* connectDB: mongoose.connect rejects, the catch block calls process.exit(1)
connectRejects ==
    /\ srv.proc = "running" /\ srv.db = "connecting"
    /\ srv' = [srv EXCEPT !.db = "failed", !.proc = "exited"]
    /\ UNCHANGED <<err, res, users, ureqs, tasks, treqs, nextId, now, h>>

\* app.listen called when the process starts, whatever the connection does
listen_AtStart ==
    /\ srv.proc = "running" /\ ~srv.listening
    /\ srv' = [srv EXCEPT !.listening = TRUE]
    /\ UNCHANGED <<err, res, users, ureqs, tasks, treqs, nextId, now, h>>

\* connectDB().then(() => app.listen(8000, ...))
listen ==
    /\ srv.proc = "running" /\ srv.db = "connected" /\ ~srv.listening
    /\ srv' = [srv EXCEPT !.listening = TRUE]
    /\ UNCHANGED <<err, res, users, ureqs, tasks, treqs, nextId, now, h>>

\* A client sends a request: accepted when the process listens, refused
\* otherwise
ClientSends(method, path) ==
    /\ Len(srv.reqs) < MaxServerReq
    /\ srv' = [srv EXCEPT !.reqs = Append(@,
                 [method |-> method, path |-> path,
                  state |-> IF srv.proc = "running" /\ srv.listening
                            THEN "accepted" ELSE "refused",
                  to |-> NotDispatched])]
    /\ UNCHANGED <<err, res, users, ureqs, tasks, treqs, nextId, now, h>>

\* The application handles an accepted request
Handle(i) ==
    /\ srv.proc = "running"
    /\ srv.reqs[i].state = "accepted"
    /\ srv' = [srv EXCEPT !.reqs[i].state = "handled",
                          !.reqs[i].to = Dispatch(srv.reqs[i].method, srv.reqs[i].path)]
    /\ UNCHANGED <<err, res, users, ureqs, tasks, treqs, nextId, now, h>>

NextServer ==
    \/ connectResolves
    \/ connectRejects
    \/ listen
    \/ \E method \in Methods, path \in Paths : ClientSends(method, path)
    \/ \E i \in 1..Len(srv.reqs) : Handle(i)

SpecServer == InitServer /\ [][NextServer]_vars

----------------------------------------------------------------------------
(* Claims about the server process, under SpecServer.                      *)

ToUsers(r) == r.path = <<"users">> /\ r.method \in {"GET", "POST"}

\* C24: the running server exposes the user endpoints: a GET /users or a
\* POST /users that the server handles is dispatched to the user router,
\* to getUsers for GET and to validate(createUserSchema) followed by
\* createUser for POST, and is not answered by the final handler's 404.
C24_UsersMounted ==
    \A i \in 1..Len(srv.reqs) :
        (srv.reqs[i].state = "handled" /\ ToUsers(srv.reqs[i])) =>
            /\ srv.reqs[i].to.target = "userRoutes"
            /\ srv.reqs[i].to.chain =
                   userRoutes[RouteIn(userRoutes, srv.reqs[i].method, <<>>)].chain
            /\ srv.reqs[i].to.status # NOT_FOUND

\* C28: the server starts listening only after connectDB has resolved, so
\* no request is accepted or handled before the store connection is up;
\* when the connection fails the process exits without ever listening, and
\* no request was ever accepted.
C28_ListenAfterConnect ==
    /\ srv.listening => srv.db = "connected"
    /\ \A i \in 1..Len(srv.reqs) :
          srv.reqs[i].state \in {"accepted", "handled"} =>
              (srv.listening /\ srv.db = "connected")
    /\ srv.db = "failed" =>
          /\ srv.proc = "exited" /\ ~srv.listening
          /\ \A i \in 1..Len(srv.reqs) : srv.reqs[i].state = "refused"
    /\ srv.proc = "exited" => srv.db = "failed"

\* A request sent before the server listened was refused, and one sent
\* after connectDB resolved and listen ran was handled by the task router.
C28_Witness ==
    /\ srv.listening /\ srv.db = "connected"
    /\ \E i, j \in 1..Len(srv.reqs) :
          /\ i < j
          /\ srv.reqs[i].state = "refused"
          /\ srv.reqs[j].state = "handled" /\ srv.reqs[j].to.target = "taskRoutes"

====
